---------------------------- MODULE Spec2Model ----------------------------
(***************************************************************************)
(* Model of libsql_client/sqlite_driver.py: the _SqliteDriver adapter      *)
(* (batch, close) over one sqlite3 connection, and the _batch executor.    *)
(*                                                                         *)
(* Every batch() call is one asyncio task, named by the order in which the *)
(* calls are made (1, 2, ...).  The asyncio.Lock, the executor's worker    *)
(* threads and the sqlite3 connection are modelled by what the calls the   *)
(* source makes on them do.  Positions are 1-based here (Python: 0-based). *)
(***************************************************************************)
EXTENDS Integers, Sequences, FiniteSets, TLC

MaxCalls == 2      \* batch() calls made in one run
MaxStmts == 2      \* statements in one batch
MaxCancels == 1    \* batch() tasks cancelled in one run

Calls == 1..MaxCalls

(***************************************************************************)
(* Statements (_RawStmt), by what the engine does with them:               *)
(*   select    SELECT id, id+1 AS next FROM t    two columns, the rows     *)
(*   seldup    SELECT id AS a, id+1 AS a FROM t  two columns of one name   *)
(*   insert    INSERT INTO t ...      writes a row, projects no column     *)
(*   begin     BEGIN                  opens a transaction, no column       *)
(*   bad       a syntax error         execute raises OperationalError      *)
(*   badparam  an int beyond 64 bits  execute raises OverflowError         *)
(*   badfetch  SELECT abs(id) AS abs  execute succeeds, a later row fails  *)
(*                                    in fetchall with OperationalError    *)
(* and, in the runs of CommitSpec below,                                   *)
(*   insret    INSERT ... RETURNING id   writes a row, one column, one row *)
(***************************************************************************)
StmtKinds == {"select", "seldup", "insert", "begin", "bad", "badparam", "badfetch"}

(***************************************************************************)
(* The list given to batch() is immutable and _batch reads it once, in     *)
(* order (line 37).  A call therefore fixes the length of its list, and    *)
(* each statement is drawn when the loop reaches it: the runs are those of *)
(* drawing the whole list at the call.                                     *)
(***************************************************************************)
VARIABLES
    pc,          \* per call: where the batch() coroutine is
    nstmts,      \* per call: the length of the list given to batch()
    stmts,       \* per call: the statements of that list the loop has read
    locked,      \* _conn_lock._locked
    waiters,     \* _conn_lock._waiters: the calls suspended in acquire(), in order
    woken,       \* waiters whose future release() has resolved
    wst,         \* per call: the worker run of _batch: none, queued, running, done
    executed,    \* per call: statements the worker has passed to conn.execute
    result_sets, \* per call: the worker's local result_sets
    fut,         \* per call: what the run_in_executor future holds
    conn,        \* the sqlite3 connection: open, in_transaction, table rows
    failure,     \* per call (history): the engine error its worker met, and where
    reset,       \* per call (history): what its leading rollback found
    txn_by,      \* (history) the call whose statement opened the open transaction, or 0
    pending_by,  \* (history) the calls whose rows are pending in it
    after_close  \* (history) the calls made after close()

vars == <<pc, nstmts, stmts, locked, waiters, woken, wst, executed, result_sets, fut, conn,
          failure, reset, txn_by, pending_by, after_close>>

hist == <<failure, reset, txn_by, pending_by>>

None == [kind |-> "none"]

----------------------------------------------------------------------------
(* The engine, as the source uses it.                                       *)

Error(cls, msg) == [kind |-> "error", cls |-> cls, msg |-> msg]

\* sqlite3's exception classes that derive from sqlite3.DatabaseError
DatabaseErrors == {"OperationalError", "ProgrammingError", "IntegrityError"}

ClosedError == Error("ProgrammingError", "Cannot operate on a closed database.")

\* conn.rollback(): an error, or None
RollbackError(c) == IF c.open THEN None ELSE ClosedError

\* (mutant) the leading rollback left out
RolledBackNothing(c) == c

\* the connection after a successful conn.rollback()
RolledBack(c) == [c EXCEPT !.in_transaction = FALSE, !.pending = 0]

\* conn.execute(stmt.sql, stmt.params): the error it raises, or None
ExecuteError(c, s) ==
    IF ~c.open THEN ClosedError
    ELSE IF s = "bad" THEN Error("OperationalError", "syntax error")
    ELSE IF s = "badparam" THEN Error("OverflowError", "int too large")
    ELSE IF s = "begin" /\ c.in_transaction
         THEN Error("OperationalError", "cannot start a transaction within a transaction")
    ELSE None

\* (mutant) the default isolation_level: a transaction is opened before a write
ExecutedDeferred(c, s) ==
    IF s = "begin" THEN [c EXCEPT !.in_transaction = TRUE]
    ELSE IF s \in {"insert", "insret"}
         THEN [c EXCEPT !.in_transaction = TRUE, !.pending = @ + 1]
    ELSE c

\* the connection after a successful conn.execute (autocommit: isolation_level=None)
Executed(c, s) ==
    IF s = "begin" THEN [c EXCEPT !.in_transaction = TRUE]
    ELSE IF s \in {"insert", "insret"}
         THEN IF c.in_transaction THEN [c EXCEPT !.pending = @ + 1]
                                  ELSE [c EXCEPT !.committed = @ + 1]
    ELSE c

\* cursor.description: the projected columns, or None for a statement without
Description(s) ==
    IF s = "select" THEN [kind |-> "tuple", names |-> <<"id", "next">>]
    ELSE IF s = "seldup" THEN [kind |-> "tuple", names |-> <<"a", "a">>]
    ELSE IF s = "insret" THEN [kind |-> "tuple", names |-> <<"id">>]
    ELSE IF s = "badfetch" THEN [kind |-> "tuple", names |-> <<"abs">>]
    ELSE None

\* cursor.fetchall(): the error it raises, or None
FetchError(c, s) ==
    IF s = "badfetch" THEN Error("OperationalError", "integer overflow") ELSE None

\* cursor.fetchall(): the rows the handle sees, its own uncommitted ones included
FetchAll(c, s) ==
    IF s \in {"select", "seldup"}
    THEN [n \in 1..(c.committed + c.pending) |-> <<n, n + 1>>]
    ELSE IF s = "insret" THEN <<(<<c.committed + c.pending>>)>>
    ELSE << >>

----------------------------------------------------------------------------
(* _batch, lines 33-47.                                                     *)

ClientResponseError(msg) == Error("ClientResponseError", msg)

\* line 42: the column names, in projection order
Columns(names) == [i \in 1..Len(names) |-> names[i]]

\* (mutant) the first position of a name is kept
ColumnIdxsFirst(columns) ==
    [name \in {columns[i] : i \in 1..Len(columns)} |->
        CHOOSE i \in 1..Len(columns) :
            /\ columns[i] = name
            /\ \A j \in 1..Len(columns) : columns[j] = name => i <= j]

\* line 43: {name: idx for (idx, name) in enumerate(columns)}; a later
\* position with the same name overwrites an earlier one
ColumnIdxs(columns) ==
    [name \in {columns[i] : i \in 1..Len(columns)} |->
        CHOOSE i \in 1..Len(columns) :
            /\ columns[i] = name
            /\ \A j \in 1..Len(columns) : columns[j] = name => j <= i]

\* result.Row(column_idxs, row)
Row(column_idxs, row) == [column_idxs |-> column_idxs, values |-> row]

\* result.ResultSet(columns, rows)
ResultSet(columns, rows) == [columns |-> columns, rows |-> rows]

\* lines 42-45 for one cursor
MakeResultSet(names, fetched) ==
    LET columns == Columns(names)
        column_idxs == ColumnIdxs(columns)
    IN  ResultSet(columns, [r \in 1..Len(fetched) |-> Row(column_idxs, fetched[r])])

\* lines 40-41: which errors of conn.execute the except clause catches
Caught(e) == e.cls \in DatabaseErrors

\* (history) the engine raised error in the call named where
Failure(where, error) == [kind |-> "failure", where |-> where, error |-> error]

\* lines 38-45 for one statement s on connection c: the connection afterwards,
\* and either the exception that leaves _batch or the ResultSet appended
StmtStep(c, s) ==
    LET e == ExecuteError(c, s)
        d == Description(s)
        f == FetchError(c, s)
        c1 == Executed(c, s)
    IN  IF e.kind = "error"
        THEN [conn |-> c, failed |-> Failure("execute", e),
              exc |-> IF Caught(e) THEN ClientResponseError(e.msg) ELSE e]
        ELSE IF d.kind = "none"
        THEN [conn |-> c1, failed |-> None,
              exc |-> Error("TypeError", "'NoneType' object is not iterable")]
        ELSE IF f.kind = "error"
        THEN [conn |-> c1, failed |-> Failure("fetchall", f), exc |-> f]
        ELSE [conn |-> c1, failed |-> None, exc |-> None,
              result_set |-> MakeResultSet(d.names, FetchAll(c1, s))]

----------------------------------------------------------------------------
(* asyncio.Lock, as lines 26-28 use it.                                     *)

Remove(q, k) == SelectSeq(q, LAMBDA x : x # k)

\* (mutant) release that wakes no waiter
WakeUpNobody(q, w) == w

\* Lock._wake_up_first on the waiters q: the waiters whose future is resolved
WakeUpFirst(q, w) == IF q = << >> THEN w ELSE w \cup {Head(q)}

\* (mutant) acquire that never waits
CanAcquireAlways == TRUE

\* Lock.acquire takes the lock without suspending
CanAcquire == ~locked /\ waiters = << >>

\* (mutant) _batch called in the coroutine itself
ContextLoop(k) == "loop"

\* line 28: where _batch of a call runs: run_in_executor hands it to a worker
\* thread of the executor, "loop" would be the event loop's own thread
Context(k) == "worker"

\* the event loop's thread is not inside a blocking call, so tasks can step
LoopFree == \A k \in Calls : wst[k] \in {"queued", "running"} => Context(k) # "loop"

----------------------------------------------------------------------------
Init ==
    /\ pc = [k \in Calls |-> "new"]
    /\ nstmts = [k \in Calls |-> 0]
    /\ stmts = [k \in Calls |-> << >>]
    /\ locked = FALSE
    /\ waiters = << >>
    /\ woken = {}
    /\ wst = [k \in Calls |-> "none"]
    /\ executed = [k \in Calls |-> 0]
    /\ result_sets = [k \in Calls |-> << >>]
    /\ fut = [k \in Calls |-> None]
    /\ conn = [open |-> TRUE, in_transaction |-> FALSE, committed |-> 0, pending |-> 0]
    /\ failure = [k \in Calls |-> None]
    /\ reset = [k \in Calls |-> None]
    /\ txn_by = 0
    /\ pending_by = {}
    /\ after_close = {}

\* line 28: loop.run_in_executor(self._executor, lambda: _batch(self._conn, stmts))
Dispatch(k) ==
    /\ wst' = [wst EXCEPT ![k] = "queued"]
    /\ pc' = [pc EXCEPT ![k] = "awaiting"]

\* batch(stmts) is called: lines 25-28 up to the first suspension
Batch(k, n) ==
    /\ LoopFree
    /\ pc[k] = "new"
    /\ \A j \in Calls : j < k => pc[j] # "new"
    /\ nstmts' = [nstmts EXCEPT ![k] = n]
    /\ IF CanAcquire
       THEN /\ locked' = TRUE
            /\ Dispatch(k)
            /\ UNCHANGED waiters
       ELSE /\ waiters' = Append(waiters, k)
            /\ pc' = [pc EXCEPT ![k] = "waiting"]
            /\ UNCHANGED <<locked, wst>>
    /\ after_close' = IF conn.open THEN after_close ELSE after_close \cup {k}
    /\ UNCHANGED <<stmts, woken, executed, result_sets, fut, conn, hist>>

\* line 26: a waiter woken by release() resumes in acquire() and goes on to line 28
Acquired(k) ==
    /\ LoopFree
    /\ pc[k] = "waiting"
    /\ k \in woken
    /\ waiters' = Remove(waiters, k)
    /\ woken' = woken \ {k}
    /\ locked' = TRUE
    /\ Dispatch(k)
    /\ UNCHANGED <<nstmts, stmts, executed, result_sets, fut, conn, hist, after_close>>

\* the frame of a call is gone once nothing refers to it any more: the
\* coroutine has ended and the worker has left _batch
Forget(k) ==
    /\ nstmts' = [nstmts EXCEPT ![k] = 0]
    /\ stmts' = [stmts EXCEPT ![k] = << >>]
    /\ executed' = [executed EXCEPT ![k] = 0]
    /\ result_sets' = [result_sets EXCEPT ![k] = << >>]
    /\ fut' = [fut EXCEPT ![k] = None]
    /\ failure' = [failure EXCEPT ![k] = None]
    /\ reset' = [reset EXCEPT ![k] = None]

\* (mutant) the loop left with break: the results so far are returned
RaisePartial(exc, rs) == [kind |-> "result", value |-> rs]

\* line 41 and every other exception that leaves _batch: nothing is returned
Raise(exc, rs) == [kind |-> "exception", exc |-> exc]

\* line 47: return result_sets
ReturnValue(rs) == [kind |-> "result", value |-> rs]

\* _batch of call k ends with outcome, having read the statements ss and
\* executed n of them with the results rs; fl is the engine error it met,
\* found what its rollback found.  The future of a cancelled call is
\* cancelled and takes no outcome.
Finish(k, outcome, ss, n, rs, fl, found) ==
    /\ wst' = [wst EXCEPT ![k] = "done"]
    /\ IF pc[k] = "cancelled"
       THEN Forget(k)
       ELSE /\ fut' = [fut EXCEPT ![k] = outcome]
            /\ stmts' = [stmts EXCEPT ![k] = ss]
            /\ executed' = [executed EXCEPT ![k] = n]
            /\ result_sets' = [result_sets EXCEPT ![k] = rs]
            /\ failure' = [failure EXCEPT ![k] = fl]
            /\ reset' = [reset EXCEPT ![k] = found]
            /\ UNCHANGED nstmts

\* (history) what the rollback of call k found: the calls whose worker had
\* ended, the call whose transaction was open (0: none), the calls with rows pending
Found(k) ==
    [kind |-> "reset",
     ended |-> {j \in Calls \ {k} : wst[j] = "done"},
     txn_by |-> txn_by,
     pending_by |-> pending_by]

\* line 34, in the worker: conn.rollback(), and line 47 when there is no statement
WorkerRollback(k) ==
    /\ wst[k] = "queued"
    /\ LET e == RollbackError(conn)
       IN  IF e.kind = "error"
           THEN /\ Finish(k, Raise(e, << >>), << >>, 0, << >>, Failure("rollback", e), None)
                /\ UNCHANGED <<conn, txn_by, pending_by>>
           ELSE /\ conn' = RolledBack(conn)
                /\ txn_by' = IF conn'.in_transaction THEN txn_by ELSE 0
                /\ pending_by' = IF conn'.pending = 0 THEN {} ELSE pending_by
                /\ IF nstmts[k] = 0
                   THEN Finish(k, ReturnValue(<< >>), << >>, 0, << >>, None, Found(k))
                   ELSE /\ wst' = [wst EXCEPT ![k] = "running"]
                        /\ reset' = [reset EXCEPT ![k] = Found(k)]
                        /\ UNCHANGED <<nstmts, stmts, executed, result_sets, fut, failure>>
    /\ UNCHANGED <<pc, locked, waiters, woken, after_close>>

\* (mutant) "continue" in place of "raise": the loop goes on after a failure
WorkerStatementContinues(k, s) ==
    /\ wst[k] = "running"
    /\ LET i == executed[k] + 1
           r == StmtStep(conn, s)
           ss == Append(stmts[k], s)
           rs == IF r.exc.kind = "error" THEN result_sets[k]
                 ELSE Append(result_sets[k], r.result_set)
       IN  /\ conn' = r.conn
           /\ txn_by' = IF conn'.in_transaction /\ ~conn.in_transaction THEN k ELSE txn_by
           /\ pending_by' = IF conn'.pending > conn.pending
                            THEN pending_by \cup {k} ELSE pending_by
           /\ IF i = nstmts[k]
              THEN Finish(k, IF r.exc.kind = "error" THEN Raise(r.exc, rs) ELSE ReturnValue(rs),
                          ss, i, rs, r.failed, reset[k])
              ELSE /\ stmts' = [stmts EXCEPT ![k] = ss]
                   /\ executed' = [executed EXCEPT ![k] = i]
                   /\ result_sets' = [result_sets EXCEPT ![k] = rs]
                   /\ UNCHANGED <<nstmts, wst, fut, failure, reset>>
    /\ UNCHANGED <<pc, locked, waiters, woken, after_close>>

\* lines 37-47, in the worker: one turn of the loop, and the return after the last
WorkerStatement(k, s) ==
    /\ wst[k] = "running"
    /\ LET i == executed[k] + 1
           r == StmtStep(conn, s)
           ss == Append(stmts[k], s)
       IN  /\ conn' = r.conn
           /\ txn_by' = IF conn'.in_transaction /\ ~conn.in_transaction THEN k ELSE txn_by
           /\ pending_by' = IF conn'.pending > conn.pending
                            THEN pending_by \cup {k} ELSE pending_by
           /\ IF r.exc.kind = "error"
              THEN Finish(k, Raise(r.exc, result_sets[k]), ss, i, result_sets[k], r.failed,
                          reset[k])
              ELSE LET rs == Append(result_sets[k], r.result_set)
                   IN  IF i = nstmts[k]
                       THEN Finish(k, ReturnValue(rs), ss, i, rs, None, reset[k])
                       ELSE /\ stmts' = [stmts EXCEPT ![k] = ss]
                            /\ executed' = [executed EXCEPT ![k] = i]
                            /\ result_sets' = [result_sets EXCEPT ![k] = rs]
                            /\ UNCHANGED <<nstmts, wst, fut, failure, reset>>
    /\ UNCHANGED <<pc, locked, waiters, woken, after_close>>

\* Lock.release (the exit of "async with", line 26)
Release ==
    /\ locked' = FALSE
    /\ woken' = WakeUpFirst(waiters, woken)

\* (mutant) acquire and release without try/finally: an exception skips release
ReturnKeepsLockOnError(k) ==
    /\ LoopFree
    /\ pc[k] = "awaiting"
    /\ wst[k] = "done"
    /\ IF fut[k].kind = "result" THEN Release ELSE UNCHANGED <<locked, woken>>
    /\ pc' = [pc EXCEPT ![k] = IF fut[k].kind = "result" THEN "returned" ELSE "raised"]
    /\ Forget(k)
    /\ UNCHANGED <<waiters, wst, conn, txn_by, pending_by, after_close>>

\* lines 26-28: the future is done, the coroutine resumes, leaves "async with"
\* and returns the future's result or raises its exception
Return(k) ==
    /\ LoopFree
    /\ pc[k] = "awaiting"
    /\ wst[k] = "done"
    /\ Release
    /\ pc' = [pc EXCEPT ![k] = IF fut[k].kind = "result" THEN "returned" ELSE "raised"]
    /\ Forget(k)
    /\ UNCHANGED <<waiters, wst, conn, txn_by, pending_by, after_close>>

\* (mutant) a cancelled waiter that keeps its place in the lock's queue
CancelWaitingStaysQueued(k) ==
    /\ LoopFree
    /\ pc[k] = "waiting"
    /\ Cardinality({j \in Calls : pc[j] = "cancelled"}) < MaxCancels
    /\ pc' = [pc EXCEPT ![k] = "cancelled"]
    /\ UNCHANGED <<nstmts, stmts, locked, waiters, woken, wst, executed, result_sets, fut, conn,
                   hist, after_close>>

\* the task of a call suspended in Lock.acquire is cancelled
CancelWaiting(k) ==
    /\ LoopFree
    /\ pc[k] = "waiting"
    /\ Cardinality({j \in Calls : pc[j] = "cancelled"}) < MaxCancels
    /\ waiters' = Remove(waiters, k)
    /\ woken' = IF locked THEN woken \ {k} ELSE WakeUpFirst(waiters', woken \ {k})
    /\ pc' = [pc EXCEPT ![k] = "cancelled"]
    /\ UNCHANGED <<nstmts, stmts, locked, wst, executed, result_sets, fut, conn, hist,
                   after_close>>

\* (mutant) a cancellation that reaches the worker and stops it
CancelAwaitingStopsWorker(k, taken) ==
    /\ LoopFree
    /\ pc[k] = "awaiting"
    /\ Cardinality({j \in Calls : pc[j] = "cancelled"}) < MaxCancels
    /\ Release
    /\ pc' = [pc EXCEPT ![k] = "cancelled"]
    /\ wst' = [wst EXCEPT ![k] = IF wst[k] = "done" THEN @ ELSE "none"]
    /\ Forget(k)
    /\ UNCHANGED <<waiters, conn, txn_by, pending_by, after_close>>

\* the task of a call suspended on its worker's future is cancelled: the
\* future is cancelled, "async with" releases the lock; work the executor has
\* not started is dropped (taken), work it has started goes on
CancelAwaiting(k, taken) ==
    /\ LoopFree
    /\ pc[k] = "awaiting"
    /\ Cardinality({j \in Calls : pc[j] = "cancelled"}) < MaxCancels
    /\ Release
    /\ pc' = [pc EXCEPT ![k] = "cancelled"]
    /\ wst' = [wst EXCEPT ![k] = IF wst[k] = "queued" /\ ~taken THEN "none" ELSE @]
    /\ IF wst'[k] \in {"none", "done"}
       THEN Forget(k)
       ELSE UNCHANGED <<nstmts, stmts, executed, result_sets, fut, failure, reset>>
    /\ UNCHANGED <<waiters, conn, txn_by, pending_by, after_close>>

\* (mutant) close() inside "async with self._conn_lock", taken without waiting
CloseUnderLock ==
    /\ LoopFree
    /\ CanAcquire
    /\ conn.open
    /\ conn' = [conn EXCEPT !.open = FALSE, !.in_transaction = FALSE, !.pending = 0]
    /\ txn_by' = 0
    /\ pending_by' = {}
    /\ UNCHANGED <<pc, nstmts, stmts, locked, waiters, woken, wst, executed, result_sets, fut,
                   failure, reset, after_close>>

\* close(), lines 30-31: closing discards a transaction left open
Close ==
    /\ LoopFree
    /\ conn.open
    /\ conn' = [conn EXCEPT !.open = FALSE, !.in_transaction = FALSE, !.pending = 0]
    /\ txn_by' = 0
    /\ pending_by' = {}
    /\ UNCHANGED <<pc, nstmts, stmts, locked, waiters, woken, wst, executed, result_sets, fut,
                   failure, reset, after_close>>

BatchCalled == \E k \in Calls, n \in 0..MaxStmts : Batch(k, n)
GateAcquired == \E k \in Calls : Acquired(k)
RolledBackByWorker == \E k \in Calls : WorkerRollback(k)
StatementRun == \E k \in Calls, s \in StmtKinds : WorkerStatement(k, s)
BatchReturned == \E k \in Calls : Return(k)
WaiterCancelled == \E k \in Calls : CancelWaiting(k)
AwaiterCancelled == \E k \in Calls, taken \in BOOLEAN : CancelAwaiting(k, taken)

Next ==
    \/ BatchCalled
    \/ GateAcquired
    \/ RolledBackByWorker
    \/ StatementRun
    \/ BatchReturned
    \/ WaiterCancelled
    \/ AwaiterCancelled
    \/ Close

Spec == Init /\ [][Next]_vars

\* The same adapter with batches of three kinds of statement: one that
\* succeeds, one that fails in the engine, one that ends the batch after
\* taking effect.  What the gate does depends on a batch only through when
\* and how its worker ends.
GateKinds == {"select", "bad", "insert"}

GateStatementRun == \E k \in Calls, s \in GateKinds : WorkerStatement(k, s)

GateNext ==
    \/ BatchCalled
    \/ GateAcquired
    \/ RolledBackByWorker
    \/ GateStatementRun
    \/ BatchReturned
    \/ WaiterCancelled
    \/ AwaiterCancelled
    \/ Close

\* The event loop runs a task that is ready (a woken waiter, a coroutine
\* whose future is done) and the executor runs work handed to it, each
\* statement of which ends: some such step is taken whenever one is possible.
\* Calls, cancellations and close() are the callers' choice: no fairness.
GateProgress == GateAcquired \/ RolledBackByWorker \/ GateStatementRun \/ BatchReturned

GateFairSpec == Init /\ [][GateNext]_vars /\ WF_vars(GateProgress)

\* The same adapter with batches of the statements that decide what a batch
\* leaves in the database: a read, a write (with its projection), the
\* opening of a transaction, a statement that fails.
CommitKinds == {"select", "insret", "begin", "bad"}

CommitStatementRun == \E k \in Calls, s \in CommitKinds : WorkerStatement(k, s)

CommitNext ==
    \/ BatchCalled
    \/ GateAcquired
    \/ RolledBackByWorker
    \/ CommitStatementRun
    \/ BatchReturned
    \/ AwaiterCancelled

CommitSpec == Init /\ [][CommitNext]_vars

----------------------------------------------------------------------------
(* Properties.                                                              *)

\* The future batch() of call k awaits is done: the next step of the
\* coroutine (line 28, "return await") returns fut[k].value or raises fut[k].exc.
Done(k) == pc[k] = "awaiting" /\ wst[k] = "done"

\* the worker of call k touches the handle in this step
WorkerActs(k) ==
    /\ wst[k] \in {"queued", "running"}
    /\ pc'[k] = pc[k]
    /\ wst'[k] # wst[k] \/ Len(stmts'[k]) # Len(stmts[k])

StatementFailed(k) ==
    failure[k].kind = "failure" /\ failure[k].where \in {"execute", "fetchall"}

\* C1: the workers of two batch() calls that are both still awaited by their
\* callers never interleave on the handle: when the worker of one performs its
\* rollback or a statement, the worker of the other is not between its
\* rollback and its end.
C1_NoInterleaving ==
    [][\A a, b \in Calls :
          (a # b /\ pc[a] = "awaiting" /\ pc[b] = "awaiting" /\ WorkerActs(b))
              => wst[a] # "running"]_vars

\* C1 witness: one call is mid-batch on its worker while another, made
\* meanwhile, is held at the gate.
C1_Witness ==
    \E a, b \in Calls :
        /\ pc[a] = "awaiting" /\ wst[a] = "running" /\ executed[a] >= 1
        /\ pc[b] = "waiting"

\* C2: the gate is held only on behalf of a call that is inside "async
\* with": once a call has returned or raised, whatever the exception, it no
\* longer holds the gate.
C2_GateReleased == locked => \E k \in Calls : pc[k] = "awaiting"

\* C2 witness: a call made it through the gate and returned after another
\* call had raised.
C2_Witness ==
    \E a, b \in Calls : pc[a] = "raised" /\ pc[b] = "returned" /\ ~locked

\* C3: a batch one of whose statements failed in the engine ends with an
\* exception, which carries no ResultSet: neither the failing statement's nor
\* those of the statements before it.
C3_NoPartialResults ==
    \A k \in Calls : (Done(k) /\ StatementFailed(k)) => fut[k].kind = "exception"

\* C3 witness: the second statement of a batch failed after the first had
\* produced a ResultSet.
C3_Witness ==
    \E k \in Calls :
        /\ Done(k) /\ StatementFailed(k)
        /\ executed[k] = 2 /\ Len(result_sets[k]) = 1
        /\ fut[k].kind = "exception"

\* C4: a batch none of whose statements (nor its rollback) failed in the
\* engine returns one ResultSet per statement, the i-th with the columns of
\* the i-th statement.
C4_CompleteResults ==
    \A k \in Calls :
        (Done(k) /\ failure[k].kind = "none") =>
            /\ fut[k].kind = "result"
            /\ Len(fut[k].value) = nstmts[k]
            /\ \A i \in 1..nstmts[k] :
                   fut[k].value[i].columns = Description(stmts[k][i]).names

\* C5: a failure of a statement in the engine, in execute or in fetchall and
\* of whatever class, reaches the caller as ClientResponseError with the
\* engine's message.
C5_UnifiedError ==
    \A k \in Calls :
        (Done(k) /\ StatementFailed(k)) =>
            /\ fut[k].kind = "exception"
            /\ fut[k].exc = ClientResponseError(failure[k].error.msg)

\* C6: the batch [INSERT] on an open handle returns exactly one ResultSet,
\* without columns and without rows.
C6_InsertEmptyResultSet ==
    \A k \in Calls :
        (Done(k) /\ nstmts[k] = 1 /\ stmts[k] = <<"insert">> /\ failure[k].kind = "none")
            => fut[k] = ReturnValue(<<ResultSet(<< >>, << >>)>>)

\* Row.__getitem__ with a column name
Lookup(row, name) == row.values[row.column_idxs[name]]

\* every ResultSet a worker has built or a future holds
ResultSets ==
    UNION {{result_sets[k][i] : i \in 1..Len(result_sets[k])} : k \in Calls}
    \cup UNION {IF fut[k].kind = "result"
                THEN {fut[k].value[i] : i \in 1..Len(fut[k].value)}
                ELSE {} : k \in Calls}

LastPosition(columns, name) ==
    CHOOSE i \in 1..Len(columns) :
        /\ columns[i] = name
        /\ \A j \in (i + 1)..Len(columns) : columns[j] # name

\* C7 as stated: in every row of every ResultSet, the lookup by the name
\* columns[i] yields the value at position i, duplicate names included.
C7_LookupByName ==
    \A rs \in ResultSets : \A r \in 1..Len(rs.rows) : \A i \in 1..Len(rs.columns) :
        Lookup(rs.rows[r], rs.columns[i]) = rs.rows[r].values[i]

\* C7 amended: the lookup by the name columns[i] yields the value at the last
\* position that carries that name: position i itself unless a later column
\* has the same name.
C7_LookupByNameLast ==
    \A rs \in ResultSets : \A r \in 1..Len(rs.rows) : \A i \in 1..Len(rs.columns) :
        /\ Lookup(rs.rows[r], rs.columns[i])
              = rs.rows[r].values[LastPosition(rs.columns, rs.columns[i])]
        /\ (\A j \in (i + 1)..Len(rs.columns) : rs.columns[j] # rs.columns[i])
              => Lookup(rs.rows[r], rs.columns[i]) = rs.rows[r].values[i]

\* C7 witness: a returned ResultSet with a row, for a projection of distinct
\* names and for one with a repeated name.
C7_Witness ==
    \E k \in Calls :
        /\ Done(k) /\ fut[k].kind = "result" /\ Len(fut[k].value) = 2
        /\ \E x, y \in 1..2 :
              /\ fut[k].value[x].columns[1] = fut[k].value[x].columns[2]
              /\ fut[k].value[y].columns[1] # fut[k].value[y].columns[2]
              /\ Len(fut[k].value[x].rows) >= 1
              /\ Len(fut[k].value[y].rows) >= 1

ValidKinds == {"select", "seldup", "insert", "begin"}

\* C9: a batch of valid statements whose worker ran after a batch had failed,
\* on the handle still open and with no call cancelled, returns one ResultSet
\* per statement.
C9_NextBatchReturns ==
    \A k \in Calls :
        ( /\ Done(k) /\ reset[k].kind = "reset"
          /\ \E j \in reset[k].ended : pc[j] = "raised"
          /\ conn.open
          /\ \A j \in Calls : pc[j] # "cancelled"
          /\ \A i \in 1..Len(stmts[k]) : stmts[k][i] \in ValidKinds )
        => (fut[k].kind = "result" /\ Len(fut[k].value) = nstmts[k])

\* C10: _batch never runs on the event loop's thread: while a worker has a
\* batch in hand the loop can run another task's batch() call; a call is
\* suspended only in the gate's queue or on the future of its own worker.
C10_OffLoop ==
    /\ LoopFree
    /\ ( (\E k \in Calls : wst[k] \in {"queued", "running"})
          /\ (\E j \in Calls : pc[j] = "new") ) => ENABLED BatchCalled
    /\ \A k \in Calls :
          /\ pc[k] = "waiting" => \E i \in 1..Len(waiters) : waiters[i] = k
          /\ pc[k] = "awaiting" => wst[k] \in {"queued", "running", "done"}

\* C10 witness: a call was made and is held at the gate while the worker of
\* another has rolled back and not yet executed its first statement.
C10_Witness ==
    \E a, b \in Calls :
        /\ pc[a] = "awaiting" /\ wst[a] = "running" /\ executed[a] = 0
        /\ pc[b] = "waiting"


\* C11: under the fairness of the loop and the executor, a call suspended at
\* the gate is eventually either cancelled or through the gate with its batch
\* run by a worker to its end, whatever the batches ahead of it did.
C11_WaiterServed ==
    \A k \in Calls : (pc[k] = "waiting") ~> (pc[k] = "cancelled" \/ Done(k))

\* C11 witness: a waiter has been woken by the release of a batch that failed.
C11_Witness ==
    \E j, k \in Calls : pc[j] = "raised" /\ pc[k] = "waiting" /\ k \in woken

\* the worker of call k has _batch in hand: handed to the executor, not ended
OnWorker(k) == wst[k] \in {"queued", "running"}

\* C12: in every state, with cancelled callers too, a worker that has _batch
\* in hand is the worker of a call that holds the gate; the gate is held
\* exactly when one call is inside "async with"; the gate is free only when
\* no worker has _batch in hand; and no two workers have _batch in hand at once.
C12_GateExclusive ==
    /\ \A k \in Calls : OnWorker(k) => (locked /\ pc[k] = "awaiting")
    /\ locked <=> Cardinality({k \in Calls : pc[k] = "awaiting"}) = 1
    /\ ~locked => \A k \in Calls : ~OnWorker(k)
    /\ Cardinality({k \in Calls : OnWorker(k)}) <= 1

\* C13: a step that executes a statement of a batch is a step of its running
\* worker, executes the statement next in the list after those executed (the
\* statements executed are a prefix of the list, grown by one), finds every
\* statement before it executed with its rows fetched into a ResultSet, and
\* ends the worker if the statement raises; a worker that has ended executes
\* nothing more.
C13_InOrder ==
    [][\A k \in Calls :
          /\ (stmts'[k] # stmts[k] /\ stmts'[k] # << >>) =>
                 /\ wst[k] = "running"
                 /\ Len(stmts'[k]) = Len(stmts[k]) + 1
                 /\ SubSeq(stmts'[k], 1, Len(stmts[k])) = stmts[k]
                 /\ executed[k] = Len(stmts[k])
                 /\ executed'[k] = Len(stmts'[k])
                 /\ Len(result_sets[k]) = executed[k]
                 /\ StmtStep(conn, stmts'[k][Len(stmts'[k])]).exc.kind = "error"
                       => wst'[k] = "done"
          /\ wst[k] = "done" => (stmts'[k] = stmts[k] \/ stmts'[k] = << >>)
      ]_vars

\* C13 witness: the first statement of a batch of two failed and the worker
\* ended with one statement executed.
C13_Witness ==
    \E k \in Calls :
        /\ Done(k) /\ nstmts[k] = 2 /\ executed[k] = 1 /\ Len(stmts[k]) = 1
        /\ fut[k].kind = "exception"

\* the leading rollback of call k raised in the engine
RollbackFailed(k) == failure[k].kind = "failure" /\ failure[k].where = "rollback"

\* C14: a batch whose leading rollback fails executes no statement, and its
\* caller receives what a failing statement gives: ClientResponseError with
\* the engine's message.
C14_RollbackFailureUnified ==
    \A k \in Calls :
        (Done(k) /\ RollbackFailed(k)) =>
            /\ executed[k] = 0
            /\ fut[k].kind = "exception"
            /\ fut[k].exc = ClientResponseError(failure[k].error.msg)

\* C15: a call made after close() executes no statement; the future its
\* caller awaits ends with ClientResponseError; and once it has raised it no
\* longer holds the gate.
C15_AfterClose ==
    \A k \in after_close :
        /\ executed[k] = 0 /\ stmts[k] = << >>
        /\ Done(k) => (fut[k].kind = "exception" /\ fut[k].exc.cls = "ClientResponseError")
        /\ pc[k] \in {"raised", "returned"} => (locked => \E j \in Calls : pc[j] = "awaiting")

RunsNext(k) == \E s \in StmtKinds : WorkerStatement(k, s)

\* C17: cancelling a call whose worker is inside _batch leaves the handle and
\* the worker as they are; the worker can then always take its next
\* statement, takes the statements one by one with the engine's effect on
\* the handle, and ends only with a statement that raises or with the last
\* one; rows committed are never taken back; and the call stays cancelled,
\* its future holding neither result nor exception.
C17_CancelledWorkerRunsOn ==
    /\ [](\A k \in Calls : (pc[k] = "cancelled" /\ wst[k] = "running") => ENABLED RunsNext(k))
    /\ [][\A k \in Calls :
             /\ (pc[k] = "awaiting" /\ pc'[k] = "cancelled") =>
                    /\ conn' = conn
                    /\ wst[k] = "running" =>
                           /\ wst'[k] = "running"
                           /\ executed'[k] = executed[k]
                           /\ stmts'[k] = stmts[k]
                           /\ nstmts'[k] = nstmts[k]
             /\ (pc[k] = "cancelled" /\ wst[k] = "running") =>
                    /\ wst'[k] \in {"running", "done"}
                    /\ (wst'[k] = "running" /\ executed'[k] # executed[k]) =>
                           /\ executed'[k] = executed[k] + 1
                           /\ executed'[k] < nstmts[k]
                           /\ \E s \in StmtKinds :
                                 /\ stmts'[k] = Append(stmts[k], s)
                                 /\ conn' = StmtStep(conn, s).conn
                                 /\ StmtStep(conn, s).exc.kind # "error"
                    /\ wst'[k] = "done" =>
                           \E s \in StmtKinds :
                               /\ conn' = StmtStep(conn, s).conn
                               /\ \/ StmtStep(conn, s).exc.kind = "error"
                                  \/ executed[k] + 1 = nstmts[k]
             /\ pc[k] = "cancelled" => (pc'[k] = "cancelled" /\ fut'[k] = None)
             /\ conn'.committed >= conn.committed
         ]_vars

\* C17 witness: the caller is cancelled and its worker, one statement
\* executed, has the second still to run.
C17_Witness ==
    \E k \in Calls :
        /\ pc[k] = "cancelled" /\ wst[k] = "running"
        /\ executed[k] = 1 /\ nstmts[k] = 2

\* C18: close() can be taken in every state in which the handle is open,
\* whether the gate is held or free and whoever waits; its step closes the
\* handle and changes neither the lock, its queue, any call nor any worker;
\* and a worker that runs on after it meets the closed handle at its next
\* statement and ends with the engine's error for it.
C18_CloseNeverWaits ==
    /\ [](conn.open => ENABLED Close)
    /\ [][/\ (conn.open /\ ~conn'.open) =>
                 UNCHANGED <<pc, locked, waiters, woken, wst, executed, stmts, fut>>
          /\ \A k \in Calls :
                 (wst[k] = "running" /\ ~conn.open /\ pc[k] = "awaiting"
                     /\ executed'[k] # executed[k]) =>
                        /\ wst'[k] = "done"
                        /\ failure'[k] = Failure("execute", ClosedError)
                        /\ fut'[k].kind = "exception"
         ]_vars

\* C18 witness: the handle is closed while a worker is between two
\* statements, its call holding the gate and another call waiting at it.
C18_Witness ==
    \E a, b \in Calls :
        /\ pc[a] = "awaiting" /\ wst[a] = "running" /\ executed[a] = 1
        /\ locked /\ pc[b] = "waiting"
        /\ ~conn.open

\* the leading rollback of some call is performed in this step
LeadingRollback == \E k \in Calls : wst[k] = "queued" /\ wst'[k] \in {"running", "done"}

\* C19: a write executed outside a transaction is committed by its own
\* statement and a committed row is never taken back, whatever fails later
\* in the batch; a read returns the committed rows and the pending ones; a
\* statement, failing or not, the end of a worker and the return or raise of
\* a call roll nothing back; rows pending in a transaction and the
\* transaction itself stay until a leading rollback (or close()) ends them.
C19_NotAtomic ==
    [][/\ conn'.committed >= conn.committed
       /\ \A k \in Calls :
              /\ executed'[k] = executed[k] + 1 =>
                     LET s == stmts'[k][executed'[k]]
                     IN  /\ (s = "insret" /\ ~conn.in_transaction) =>
                                /\ conn'.committed = conn.committed + 1
                                /\ conn'.pending = conn.pending
                                /\ ~conn'.in_transaction
                         /\ (s = "insret" /\ conn.in_transaction) =>
                                /\ conn'.committed = conn.committed
                                /\ conn'.pending = conn.pending + 1
                         /\ conn.in_transaction => conn'.in_transaction
                         /\ conn'.pending >= conn.pending
                         /\ (s = "select" /\ Len(result_sets'[k]) = executed'[k]) =>
                                Len(result_sets'[k][executed'[k]].rows)
                                    = conn.committed + conn.pending
              /\ (wst[k] = "running" /\ wst'[k] = "done") =>
                     /\ conn.in_transaction => conn'.in_transaction
                     /\ conn'.pending >= conn.pending
              /\ (pc[k] = "awaiting" /\ pc'[k] # "awaiting") => conn' = conn
       /\ (conn'.pending < conn.pending \/ (conn.in_transaction /\ ~conn'.in_transaction)) =>
              /\ LeadingRollback \/ ~conn'.open
              /\ conn'.committed = conn.committed
      ]_vars

\* C19 witness: a batch wrote a row with its first statement and failed at
\* its second; the batch after it, a single read, has the row in its result.
C19_Witness ==
    \E a, b \in Calls :
        /\ pc[a] = "raised"
        /\ Done(b) /\ stmts[b] = <<"select">> /\ fut[b].kind = "result"
        /\ reset[b].kind = "reset" /\ reset[b].ended = {a}
        /\ Len(fut[b].value[1].rows) = 1
        /\ conn.committed = 1

============================================================================
